---- MODULE Spec2Model ----
(***************************************************************************)
(* Telemetry hub (src/src/lib.rs): three HTTP handlers working on two      *)
(* SQLite tables (log_messages, commands) and two keys of a key-value      *)
(* store (last_cleanup_time, max_upload_interval).                         *)
(*                                                                         *)
(* Every request is an independent execution; the only atomic unit is one  *)
(* store statement.  A request therefore is a process whose steps are the  *)
(* statements of its handler, in program order.                            *)
(*                                                                         *)
(* Time is counted in tenths of a second, so that 1.1 x M seconds is the   *)
(* whole number 11 * M.  Timestamps are stored as RFC 3339 text and        *)
(* compared as text; the model takes all of them in the one format         *)
(* chrono's to_rfc3339 writes, where text order is time order.  Messages   *)
(* are never read by the handlers and are left out of the rows.            *)
(***************************************************************************)
EXTENDS Integers, Sequences, FiniteSets, TLC

----------------------------------------------------------------------------
(* Bounds of the model *)

NumProcs == 2
MaxLogs == 2
MaxCmds == 2
MaxTicks == 1

(* Program constants, lib.rs:13-16 *)
DEFAULT_CLEANUP_INTERVAL_MINUTES == 5
DEFAULT_DELETE_TIMEOUT_MINUTES == 30
DEFAULT_UPLOAD_INTERVAL_SECONDS == 300
(* 10000 in the source (lib.rs:16); scaled down so that a page can fill *)
MAX_LOG_ITEMS_PER_DOWNLOAD == 2
(* the LIMIT 10000 of the two cleanup DELETEs (lib.rs:131, 146), scaled down so
   that a backlog can exceed it *)
CLEANUP_BATCH_LIMIT == 1

Procs == 1..NumProcs
NodeIds == {7, 8}

Seconds(s) == 10 * s
Minutes(m) == 600 * m

(* How far a client's timestamp may lie behind the clock when it uploads: not at
   all, 49.5 s, 400 s *)
Fresh == Seconds(0)
Edge == Seconds(49) + 5
Old == Seconds(400)
(* and a timestamp that is past the retention window when it arrives *)
Ancient == Minutes(31)
(* The clock's steps: one cleanup interval, and just over the retention window *)
Steps == {Minutes(5), Minutes(30) + 1}
(* The periods, in seconds, an operator may send *)
Periods == {45, 400, 600}

None == <<>>
Some(x) == <<x>>
IsSome(o) == o # <<>>
Unwrap(o) == o[1]
UnwrapOr(o, d) == IF IsSome(o) THEN o[1] ELSE d

Max2(a, b) == IF a >= b THEN a ELSE b
SetMax(S) == CHOOSE x \in S : \A y \in S : y <= x

(* Rust's `as i64` of a quotient: truncation toward zero *)
TruncDiv(a, b) == IF a >= 0 THEN a \div b ELSE -((-a) \div b)

RECURSIVE OrderById(_)
(* ORDER BY id: the rows of S as a sequence, smallest id first *)
OrderById(S) ==
    IF S = {} THEN <<>>
    ELSE LET m == CHOOSE x \in S : \A y \in S : x.id <= y.id
         IN  <<m>> \o OrderById(S \ {m})

RECURSIVE OrderByTimestampId(_)
(* ORDER BY timestamp ASC, id ASC *)
OrderByTimestampId(S) ==
    IF S = {} THEN <<>>
    ELSE LET m == CHOOSE x \in S : \A y \in S :
                      \/ x.timestamp < y.timestamp
                      \/ x.timestamp = y.timestamp /\ x.id <= y.id
         IN  <<m>> \o OrderByTimestampId(S \ {m})

RECURSIVE Ascending(_)
(* The integers of S as a sequence, smallest first *)
Ascending(S) ==
    IF S = {} THEN <<>>
    ELSE LET m == CHOOSE x \in S : \A y \in S : x <= y
         IN  <<m>> \o Ascending(S \ {m})

RECURSIVE Sum(_, _)
(* The sum of f over the set S *)
Sum(f, S) ==
    IF S = {} THEN 0
    ELSE LET x == CHOOSE y \in S : TRUE IN f[x] + Sum(f, S \ {x})

Range(s) == {s[i] : i \in 1..Len(s)}
Prefix(s, n) == IF Len(s) <= n THEN s ELSE SubSeq(s, 1, n)

----------------------------------------------------------------------------
(* Requests *)

CommandNames == {"ping", "set_update_interval"}
OptNodes == {None} \cup {Some(n) : n \in NodeIds}
OptPeriods == {None} \cup {Some(x) : x \in Periods}

(* CommandRequest.parameters, reduced to the three keys handle_command reads *)
Parameters == [node_id : OptNodes, active_period : OptPeriods, inactive_period : OptPeriods]

CommandRequests == [command : CommandNames, parameters : Parameters]

Request(command, node_id, active_period, inactive_period) ==
    [command |-> command,
     parameters |-> [node_id |-> node_id, active_period |-> active_period,
                     inactive_period |-> inactive_period]]

NoRequest == [command |-> "", parameters |->
                 [node_id |-> None, active_period |-> None, inactive_period |-> None]]

----------------------------------------------------------------------------
VARIABLES
    now,            \* Utc::now()
    ticks,          \* how often the clock has advanced
    log_messages,   \* table log_messages: rows [id, timestamp, node_id]
    log_seq,        \* AUTOINCREMENT: the largest id log_messages ever gave out
    commands,       \* table commands: rows [id, timestamp, node_id, command]
    cmd_seq,        \* AUTOINCREMENT: the largest id commands ever gave out
    last_cleanup_time,      \* key "last_cleanup_time": None or Some(instant)
    max_upload_interval,    \* key "max_upload_interval": None or Some(seconds)
    req,            \* the requests in flight, one per process
    collector,      \* the collector: the item_ids it has been sent
    cmdHist         \* history: what became of each command row, by id

vars == <<now, ticks, log_messages, log_seq, commands, cmd_seq, last_cleanup_time,
          max_upload_interval, req, collector, cmdHist>>
tables == <<log_messages, log_seq, commands, cmd_seq>>
keys == <<last_cleanup_time, max_upload_interval>>
clock == <<now, ticks>>

IdleReq ==
    [kind |-> "idle", pc |-> "idle", node |-> 0, entries |-> <<>>, last_id |-> 0,
     collector |-> FALSE, interval |-> 0, at |-> 0, cutoff |-> 0, rows |-> <<>>,
     cmds |-> <<>>, request |-> NoRequest, targets |-> <<>>,
     prior |-> None, inserted |-> <<>>, known |-> {}, eligible |-> {}, earlier |-> None]

Init ==
    /\ now = 0
    /\ ticks = 0
    /\ log_messages = {}
    /\ log_seq = 0
    /\ commands = {}
    /\ cmd_seq = 0
    /\ last_cleanup_time = None
    /\ max_upload_interval = None
    /\ req = [p \in Procs |-> IdleReq]
    /\ collector = [received |-> {}, again |-> {}]
    /\ cmdHist = <<>>

----------------------------------------------------------------------------
(* The functions of lib.rs that read the store *)

get_max_upload_interval(default) == UnwrapOr(max_upload_interval, default)

(* (max_upload_interval as f64 * 1.1) as i64, in seconds *)
SafetyWindow(interval) == Seconds(TruncDiv(11 * interval, 10))

(* Mutant of Eligible: WHERE id >= ? *)
EligibleFromLastId(last_id, cutoff) ==
    {r \in log_messages : r.id >= last_id /\ r.timestamp < cutoff}

Eligible(last_id, cutoff) ==
    {r \in log_messages : r.id > last_id /\ r.timestamp < cutoff}

(* Mutant of get_logs_for_download: the query without its timestamp clause *)
LogsWithoutCutoff(last_id, interval) ==
    Prefix(OrderByTimestampId({r \in log_messages : r.id > last_id}),
           MAX_LOG_ITEMS_PER_DOWNLOAD)

get_logs_for_download(last_id, interval) ==
    Prefix(OrderByTimestampId(Eligible(last_id, now - SafetyWindow(interval))),
           MAX_LOG_ITEMS_PER_DOWNLOAD)

(* Mutant of SelectCommands: ORDER BY id DESC *)
SelectCommandsNewestFirst(node_id) ==
    LET rows == OrderById({c \in commands : c.node_id = node_id})
    IN  [k \in 1..Len(rows) |-> rows[Len(rows) + 1 - k]]

SelectCommands(node_id) == OrderById({c \in commands : c.node_id = node_id})

(* Mutant of DeleteCommands: the DELETE without its WHERE clause *)
DeleteEveryCommand(node_id) == {}

(* Mutant of DeleteCommands: the DELETE left out *)
DeleteNoCommands(node_id) == commands

(* Mutant of DeleteCommands: only the oldest of the node's commands is deleted *)
DeleteOldestCommand(node_id) ==
    {c \in commands : \/ c.node_id # node_id
                      \/ \E d \in commands : d.node_id = node_id /\ d.id < c.id}

DeleteCommands(node_id) == {c \in commands : c.node_id # node_id}

(* Mutant of get_all_node_ids: SELECT node_id without DISTINCT *)
AllNodeIdsOfRows ==
    LET rows == OrderById(log_messages)
    IN  [k \in 1..Len(rows) |-> rows[k].node_id]

get_all_node_ids == Ascending({r.node_id : r \in log_messages})

(* Mutant of should_cleanup: the throttle left out *)
AlwaysCleanup(cleanup_interval_minutes) == TRUE

should_cleanup(cleanup_interval_minutes) ==
    \/ last_cleanup_time = None
    \/ TruncDiv(now - Unwrap(last_cleanup_time), Minutes(1)) >= cleanup_interval_minutes

(* Mutant of CleanupVictims: the DELETE without its timestamp clause *)
CleanupVictimsOfAnyAge(table, cutoff) ==
    LET n == IF Cardinality(table) <= CLEANUP_BATCH_LIMIT
             THEN Cardinality(table) ELSE CLEANUP_BATCH_LIMIT
    IN  {v \in SUBSET table : Cardinality(v) = n}

(* Mutant of CleanupVictims: nothing is deleted when more rows are expired than the
   LIMIT allows *)
CleanupVictimsWithinLimit(table, cutoff) ==
    LET expired == {r \in table : r.timestamp < cutoff}
    IN  IF Cardinality(expired) <= CLEANUP_BATCH_LIMIT THEN {expired} ELSE {{}}

(* The rows one `DELETE ... WHERE id IN (SELECT id ... WHERE timestamp < ? LIMIT n)`
   may remove: any n of the expired rows, all of them when there are fewer *)
CleanupVictims(table, cutoff) ==
    LET expired == {r \in table : r.timestamp < cutoff}
        n == IF Cardinality(expired) <= CLEANUP_BATCH_LIMIT
             THEN Cardinality(expired) ELSE CLEANUP_BATCH_LIMIT
    IN  {v \in SUBSET expired : Cardinality(v) = n}

node_id_opt(request) == request.parameters.node_id

(* Mutant of max_interval: active.min(inactive) *)
MinInterval(request) ==
    LET a == Unwrap(request.parameters.active_period)
        i == Unwrap(request.parameters.inactive_period)
    IN  IF a <= i THEN a ELSE i

max_interval(request) ==
    Max2(Unwrap(request.parameters.active_period),
         Unwrap(request.parameters.inactive_period))

SetsInterval(request) ==
    /\ request.command = "set_update_interval"
    /\ IsSome(request.parameters.active_period)
    /\ IsSome(request.parameters.inactive_period)

(* Where handle_command goes once its commands are enqueued *)
AfterEnqueue(request) ==
    IF ~SetsInterval(request) THEN "respond"
    ELSE IF node_id_opt(request) = None THEN "set_interval" ELSE "read_interval"

(* Where handle_update and handle_download go after the cleanup check *)
AfterCleanup(kind) == IF kind = "update" THEN "drain_select" ELSE "respond"

----------------------------------------------------------------------------
(* What the model's bounds still allow *)

PendingLogs == Sum([p \in Procs |-> Len(req[p].entries)], Procs)

PendingCmds ==
    Sum([p \in Procs |-> IF req[p].pc = "get_all_node_ids" THEN Cardinality(NodeIds)
                         ELSE Len(req[p].targets)], Procs)

AllIdle == \A p \in Procs : req[p].kind = "idle"

----------------------------------------------------------------------------
(* The clock *)

Tick(d, max_ticks) ==
    /\ ticks < max_ticks
    /\ now' = now + d
    /\ ticks' = ticks + 1
    /\ UNCHANGED <<tables, keys, req, collector, cmdHist>>

(* Time passing without end.  The handlers read the clock only to compare it with
   stored times, so d of time passing is every stored time moving d into the past
   with the clock read as before.  A time more than Horizon in the past is past
   every window the handlers compare with and is kept as "older than Horizon". *)
Horizon == Minutes(DEFAULT_DELETE_TIMEOUT_MINUTES + 2 * DEFAULT_CLEANUP_INTERVAL_MINUTES)

Aged(t, d) == Max2(t - d, now - Horizon - 1)

Elapse(d) ==
    /\ \A p \in Procs : req[p].pc = "cleanup_commands" => req[p].cutoff - d >= now - Horizon
    /\ log_messages' = {[r EXCEPT !.timestamp = Aged(@, d)] : r \in log_messages}
    /\ commands' = {[c EXCEPT !.timestamp = Aged(@, d)] : c \in commands}
    /\ last_cleanup_time' = IF last_cleanup_time = None THEN None
                            ELSE Some(Aged(Unwrap(last_cleanup_time), d))
    /\ req' = [p \in Procs |->
                 [req[p] EXCEPT
                    !.entries = [k \in 1..Len(@) |-> Aged(@[k], d)],
                    !.cutoff = IF req[p].pc = "cleanup_commands" THEN @ - d ELSE @,
                    !.cmds = [k \in 1..Len(@) |-> [@[k] EXCEPT !.timestamp = Aged(@, d)]]]]
    /\ UNCHANGED <<clock, log_seq, cmd_seq, max_upload_interval, collector, cmdHist>>

----------------------------------------------------------------------------
(* handle_update *)

StartUpdate(p, node_id, ages, max_logs) ==
    /\ req[p].kind = "idle"
    /\ log_seq + PendingLogs + Len(ages) <= max_logs
    /\ req' = [req EXCEPT ![p] =
                 [IdleReq EXCEPT !.kind = "update",
                                 !.pc = IF ages = <<>> THEN "should_cleanup" ELSE "insert_log",
                                 !.node = node_id,
                                 !.entries = [i \in 1..Len(ages) |-> now - ages[i]]]]
    /\ UNCHANGED <<clock, tables, keys, collector, cmdHist>>

(* insert_log_messages: one INSERT *)
InsertLog(p) ==
    /\ req[p].pc = "insert_log"
    /\ log_seq' = log_seq + 1
    /\ log_messages' = log_messages \cup
           {[id |-> log_seq + 1, timestamp |-> Head(req[p].entries), node_id |-> req[p].node]}
    /\ req' = [req EXCEPT ![p].entries = Tail(@),
                          ![p].inserted = Append(@, log_seq + 1),
                          ![p].pc = IF Len(req[p].entries) = 1 THEN "should_cleanup" ELSE @]
    /\ UNCHANGED <<clock, commands, cmd_seq, keys, collector, cmdHist>>

(* insert_log_messages: an INSERT fails and the `?` of lines 93-100 and 307 ends the
   request with the error; what the earlier INSERTs wrote stays written *)
InsertLogFails(p) ==
    /\ req[p].pc = "insert_log"
    /\ req' = [req EXCEPT ![p].pc = "internal_error"]
    /\ UNCHANGED <<clock, tables, keys, collector, cmdHist>>

(* The error response leaves: 500 for a failed statement, 400 for a refused
   last_log_message_id *)
ReturnError(p) ==
    /\ req[p].pc \in {"internal_error", "bad_request"}
    /\ req' = [req EXCEPT ![p] = IdleReq]
    /\ UNCHANGED <<clock, tables, keys, collector, cmdHist>>

(* should_cleanup, in handle_update and in handle_download *)
ShouldCleanup(p) ==
    /\ req[p].pc = "should_cleanup"
    /\ req' = [req EXCEPT ![p].pc =
                 IF should_cleanup(DEFAULT_CLEANUP_INTERVAL_MINUTES)
                 THEN "cleanup_logs" ELSE AfterCleanup(req[p].kind)]
    /\ UNCHANGED <<clock, tables, keys, collector, cmdHist>>

(* cleanup_old_data: the DELETE on log_messages *)
CleanupLogs(p) ==
    /\ req[p].pc = "cleanup_logs"
    /\ LET cutoff == now - Minutes(DEFAULT_DELETE_TIMEOUT_MINUTES)
       IN  /\ \E v \in CleanupVictims(log_messages, cutoff) : log_messages' = log_messages \ v
           /\ req' = [req EXCEPT ![p].cutoff = cutoff, ![p].pc = "cleanup_commands"]
    /\ UNCHANGED <<clock, log_seq, commands, cmd_seq, keys, collector, cmdHist>>

(* cleanup_old_data: the DELETE on commands *)
CleanupCommands(p) ==
    /\ req[p].pc = "cleanup_commands"
    /\ \E v \in CleanupVictims(commands, req[p].cutoff) :
          /\ commands' = commands \ v
          /\ cmdHist' = [i \in 1..Len(cmdHist) |->
                           IF \E c \in v : c.id = i
                           THEN [cmdHist[i] EXCEPT !.fate = "expired"] ELSE cmdHist[i]]
    /\ req' = [req EXCEPT ![p].pc = "cleanup_mark"]
    /\ UNCHANGED <<clock, log_messages, log_seq, cmd_seq, keys, collector>>

(* update_last_cleanup_time *)
CleanupMark(p) ==
    /\ req[p].pc = "cleanup_mark"
    /\ last_cleanup_time' = Some(now)
    /\ req' = [req EXCEPT ![p].pc = AfterCleanup(req[p].kind)]
    /\ UNCHANGED <<clock, tables, max_upload_interval, collector, cmdHist>>

(* get_and_delete_commands: the SELECT *)
DrainSelect(p) ==
    /\ req[p].pc = "drain_select"
    /\ req' = [req EXCEPT ![p].cmds = SelectCommands(req[p].node), ![p].pc = "drain_delete"]
    /\ UNCHANGED <<clock, tables, keys, collector, cmdHist>>

Bump(n) == IF n >= 2 THEN 2 ELSE n + 1

(* get_and_delete_commands: the DELETE; the response is what the SELECT read *)
DrainDelete(p) ==
    /\ req[p].pc = "drain_delete"
    /\ commands' = DeleteCommands(req[p].node)
    /\ cmdHist' = [i \in 1..Len(cmdHist) |->
          [cmdHist[i] EXCEPT
             !.fate = IF \E c \in commands \ commands' : c.id = i THEN "drained" ELSE @,
             !.returned = IF \E k \in 1..Len(req[p].cmds) : req[p].cmds[k].id = i
                          THEN Bump(@) ELSE @,
             !.owned = IF /\ \E k \in 1..Len(req[p].cmds) : req[p].cmds[k].id = i
                          /\ \E c \in commands : c.id = i
                       THEN Bump(@) ELSE @]]
    /\ req' = [req EXCEPT ![p].pc = "respond"]
    /\ UNCHANGED <<clock, log_messages, log_seq, cmd_seq, keys, collector>>

----------------------------------------------------------------------------
(* handle_download *)

(* History: an export with the same last_log_message_id whose response is already
   made, if there is one: what it had to choose from and what it returned *)
EarlierCall(last_id) ==
    LET done == {q \in Procs : /\ req[q].kind = "download"
                               /\ req[q].pc = "respond"
                               /\ req[q].last_id = last_id}
    IN  IF done = {} THEN None
        ELSE LET q == CHOOSE q \in done : TRUE
             IN  Some([eligible |-> req[q].eligible, rows |-> req[q].rows])

(* Mutant of ValidCursor: the check of lines 359-364 left out *)
AnyCursor(last_id) == TRUE

(* last_id < 0 is answered 400 before the store is opened *)
ValidCursor(last_id) == last_id >= 0

StartDownload(p, last_id, is_collector) ==
    /\ req[p].kind = "idle"
    /\ is_collector =>
          /\ last_id = SetMax(collector.received \cup {0})
          /\ \A q \in Procs : ~req[q].collector
    /\ req' = [req EXCEPT ![p] =
                 [IdleReq EXCEPT !.kind = "download",
                                 !.pc = IF ValidCursor(last_id) THEN "get_interval"
                                        ELSE "bad_request",
                                 !.last_id = last_id, !.collector = is_collector,
                                 !.earlier = EarlierCall(last_id)]]
    /\ UNCHANGED <<clock, tables, keys, collector, cmdHist>>

GetInterval(p) ==
    /\ req[p].pc = "get_interval"
    /\ req' = [req EXCEPT ![p].interval = get_max_upload_interval(DEFAULT_UPLOAD_INTERVAL_SECONDS),
                          ![p].pc = "select_logs"]
    /\ UNCHANGED <<clock, tables, keys, collector, cmdHist>>

SelectLogs(p) ==
    /\ req[p].pc = "select_logs"
    /\ req' = [req EXCEPT ![p].rows = get_logs_for_download(req[p].last_id, req[p].interval),
                          ![p].at = now,
                          ![p].eligible = {r \in log_messages :
                                              /\ r.id > req[p].last_id
                                              /\ r.timestamp < now - SafetyWindow(req[p].interval)},
                          ![p].pc = "should_cleanup"]
    /\ UNCHANGED <<clock, tables, keys, collector, cmdHist>>

(* The response leaves; the collector takes note of what it was sent *)
Return(p) ==
    /\ req[p].pc = "respond"
    /\ LET ids == {req[p].rows[k].id : k \in 1..Len(req[p].rows)}
       IN  collector' = IF req[p].collector
                        THEN [received |-> collector.received \cup ids,
                              again |-> collector.again \cup (ids \cap collector.received)]
                        ELSE collector
    /\ req' = [req EXCEPT ![p] = IdleReq]
    /\ UNCHANGED <<clock, tables, keys, cmdHist>>

----------------------------------------------------------------------------
(* handle_command *)

StartCommand(p, request, max_cmds) ==
    /\ req[p].kind = "idle"
    /\ cmd_seq + PendingCmds
         + (IF node_id_opt(request) = None THEN Cardinality(NodeIds) ELSE 1) <= max_cmds
    /\ req' = [req EXCEPT ![p] =
                 [IdleReq EXCEPT !.kind = "command",
                                 !.pc = IF node_id_opt(request) = None
                                        THEN "get_all_node_ids" ELSE "insert_command",
                                 !.request = request,
                                 !.targets = node_id_opt(request),
                                 !.prior = max_upload_interval]]
    /\ UNCHANGED <<clock, tables, keys, collector, cmdHist>>

GetAllNodeIds(p) ==
    /\ req[p].pc = "get_all_node_ids"
    /\ LET node_ids == get_all_node_ids
       IN  req' = [req EXCEPT ![p].targets = node_ids,
                                 ![p].known = {r.node_id : r \in log_messages},
                                 ![p].pc = IF node_ids = <<>> THEN AfterEnqueue(req[p].request)
                                           ELSE "insert_command"]
    /\ UNCHANGED <<clock, tables, keys, collector, cmdHist>>

(* insert_command: one INSERT *)
InsertCommand(p) ==
    /\ req[p].pc = "insert_command"
    /\ LET node_id == Head(req[p].targets)
       IN  /\ cmd_seq' = cmd_seq + 1
           /\ commands' = commands \cup
                 {[id |-> cmd_seq + 1, timestamp |-> now, node_id |-> node_id,
                   command |-> req[p].request]}
           /\ cmdHist' = Append(cmdHist, [node_id |-> node_id, fate |-> "queued",
                                          returned |-> 0, owned |-> 0])
           /\ req' = [req EXCEPT ![p].targets = Tail(@),
                                 ![p].inserted = Append(@, node_id),
                                 ![p].pc = IF Len(req[p].targets) = 1
                                           THEN AfterEnqueue(req[p].request) ELSE @]
    /\ UNCHANGED <<clock, log_messages, log_seq, keys, collector>>

(* update_max_upload_interval, targeted: the read and the comparison *)
ReadInterval(p) ==
    /\ req[p].pc = "read_interval"
    /\ LET current == get_max_upload_interval(DEFAULT_UPLOAD_INTERVAL_SECONDS)
       IN  req' = [req EXCEPT ![p].interval = current,
                                 ![p].pc = IF max_interval(req[p].request) > current
                                           THEN "set_interval" ELSE "respond"]
    /\ UNCHANGED <<clock, tables, keys, collector, cmdHist>>

(* update_max_upload_interval: the write *)
SetInterval(p) ==
    /\ req[p].pc = "set_interval"
    /\ max_upload_interval' = Some(max_interval(req[p].request))
    /\ req' = [req EXCEPT ![p].pc = "respond"]
    /\ UNCHANGED <<clock, tables, last_cleanup_time, collector, cmdHist>>

----------------------------------------------------------------------------
(* The next-state relation over the inputs and bounds of a scenario e *)

NextOver(e) ==
    \/ \E d \in e.steps : Tick(d, e.max_ticks)
    \/ \E p \in e.probes, n \in e.nodes, a \in e.uploads : StartUpdate(p, n, a, e.max_logs)
    \/ \E p \in e.collectors, i \in e.last_ids, c \in e.tracked : StartDownload(p, i, c)
    \/ \E p \in e.operators, r \in e.requests : StartCommand(p, r, e.max_cmds)
    \/ \E p \in Procs : InsertLog(p)
    \/ \E p \in Procs : ShouldCleanup(p)
    \/ \E p \in Procs : CleanupLogs(p)
    \/ \E p \in Procs : CleanupCommands(p)
    \/ \E p \in Procs : CleanupMark(p)
    \/ \E p \in Procs : DrainSelect(p)
    \/ \E p \in Procs : DrainDelete(p)
    \/ \E p \in Procs : GetInterval(p)
    \/ \E p \in Procs : SelectLogs(p)
    \/ \E p \in Procs : Return(p)
    \/ \E p \in Procs : GetAllNodeIds(p)
    \/ \E p \in Procs : InsertCommand(p)
    \/ \E p \in Procs : ReadInterval(p)
    \/ \E p \in Procs : SetInterval(p)

(* Requests handled one at a time: a single process *)
SerialInputs ==
    [probes |-> {1}, collectors |-> {1}, operators |-> {1}, tracked |-> BOOLEAN,
     nodes |-> NodeIds, uploads |-> {<<>>, <<Fresh>>}, last_ids |-> {0},
     requests |-> {Request("ping", Some(7), None, None),
                   Request("ping", None, None, None),
                   Request("set_update_interval", Some(7), Some(600), Some(45))},
     steps |-> Steps, max_logs |-> MaxLogs, max_cmds |-> MaxCmds, max_ticks |-> MaxTicks]

NextSerial == NextOver(SerialInputs)

SerialSpec == Init /\ [][NextSerial]_vars

(* Dispatches one at a time, every kind of set_update_interval *)
DispatchInputs ==
    [probes |-> {1}, collectors |-> {1}, operators |-> {1}, tracked |-> BOOLEAN,
     nodes |-> NodeIds, uploads |-> {<<Fresh>>}, last_ids |-> {0},
     requests |-> {r \in CommandRequests :
                      /\ r.parameters.node_id \in {None, Some(7)}
                      /\ <<r.parameters.active_period, r.parameters.inactive_period>> \in
                            {<<Some(45), Some(45)>>, <<Some(600), Some(45)>>,
                             <<Some(45), Some(400)>>, <<Some(600), None>>,
                             <<None, Some(600)>>, <<None, None>>}},
     steps |-> {Minutes(5)}, max_logs |-> MaxLogs, max_cmds |-> MaxCmds,
     max_ticks |-> MaxTicks]

NextDispatch == NextOver(DispatchInputs)

DispatchSpec == Init /\ [][NextDispatch]_vars

(* Uploads from one node racing with each other and with dispatches *)
RaceInputs ==
    [probes |-> Procs, collectors |-> {1}, operators |-> Procs \ {1}, tracked |-> BOOLEAN,
     nodes |-> {7}, uploads |-> {<<>>, <<Fresh>>}, last_ids |-> {0},
     requests |-> {Request("ping", Some(7), None, None),
                   Request("ping", None, None, None),
                   Request("set_update_interval", Some(7), Some(400), Some(45))},
     steps |-> {Minutes(30) + 1}, max_logs |-> MaxLogs, max_cmds |-> MaxCmds,
     max_ticks |-> MaxTicks]

NextRace == NextOver(RaceInputs)

Spec == Init /\ [][NextRace]_vars

(* Dispatches racing with each other *)
IntervalInputs ==
    [probes |-> {1}, collectors |-> {1}, operators |-> Procs, tracked |-> BOOLEAN,
     nodes |-> {7}, uploads |-> {<<Fresh>>}, last_ids |-> {0},
     requests |-> {Request("set_update_interval", Some(7), Some(400), Some(45)),
                   Request("set_update_interval", Some(7), Some(45), Some(600)),
                   Request("set_update_interval", None, Some(45), Some(45))},
     steps |-> {Minutes(5)}, max_logs |-> MaxLogs, max_cmds |-> MaxCmds,
     max_ticks |-> MaxTicks]

NextInterval == NextOver(IntervalInputs)

IntervalSpec == Init /\ [][NextInterval]_vars

(* The collector exporting while nodes upload and an operator dispatches *)
ExportInputs ==
    [probes |-> {2}, collectors |-> {1}, operators |-> {2}, tracked |-> {TRUE},
     nodes |-> NodeIds, uploads |-> {<<Edge>>, <<Old>>}, last_ids |-> 0..MaxLogs,
     requests |-> {Request("set_update_interval", None, Some(45), Some(45)),
                   Request("set_update_interval", Some(7), Some(600), Some(45))},
     steps |-> {Minutes(30) + 1}, max_logs |-> MaxLogs, max_cmds |-> MaxCmds,
     max_ticks |-> MaxTicks]

NextExport == NextOver(ExportInputs)

ExportSpec == Init /\ [][NextExport]_vars

(* Two callers of export, the second repeating the first one's call *)
RetryInputs ==
    [probes |-> {2}, collectors |-> Procs, operators |-> {2}, tracked |-> {FALSE},
     nodes |-> {7}, uploads |-> {<<Fresh>>, <<Old>>}, last_ids |-> {0},
     requests |-> {Request("set_update_interval", None, Some(600), Some(45)),
                   Request("set_update_interval", Some(7), Some(45), Some(400))},
     steps |-> {Minutes(30) + 1}, max_logs |-> MaxLogs, max_cmds |-> MaxCmds,
     max_ticks |-> MaxTicks]

NextRetry == NextOver(RetryInputs)

RetrySpec == Init /\ [][NextRetry]_vars

----------------------------------------------------------------------------
(* The export cursor *)

Cursor == SetMax(collector.received \cup {0})

Selected(p) ==
    /\ req[p].kind = "download"
    /\ req[p].pc \in {"should_cleanup", "cleanup_logs", "cleanup_commands", "cleanup_mark",
                      "respond"}

RowIds(rows) == {rows[k].id : k \in 1..Len(rows)}

(* C1: export completeness.  A collector that always passes the largest item_id
   it has received never gets a record whose id is at most that id; so if no
   stored record is to be skipped forever, every stored record with an id up to
   the collector's cursor must already have been returned to it. *)
C1_NoRecordSkipped ==
    \A r \in log_messages : r.id <= Cursor => r.id \in collector.received

(* C5: no duplicate export.  No item_id is returned to the collector by two of
   its export calls. *)
C5_NoDuplicateExport == collector.again = {}

(* C5 witness: the collector has records from an earlier call and a later call of
   its is about to return more *)
C5_Witness ==
    /\ collector.received # {}
    /\ \E p \in Procs : /\ req[p].collector
                        /\ req[p].pc = "respond"
                        /\ req[p].rows # <<>>

(* C6 as stated: a repeated export with the same last_log_message_id, with the same
   records to choose from as the earlier call, returns an empty list and none of
   the ids the earlier call returned. *)
C6_RepeatIsEmpty ==
    \A p \in Procs :
        (/\ Selected(p)
         /\ IsSome(req[p].earlier)
         /\ Unwrap(req[p].earlier).eligible = req[p].eligible)
        => /\ req[p].rows = <<>>
           /\ RowIds(req[p].rows) \cap RowIds(Unwrap(req[p].earlier).rows) = {}

(* C6 amended: a repeated export with the same last_log_message_id, with the same
   records to choose from as the earlier call, returns the same list again. *)
C6_RepeatIsSame ==
    \A p \in Procs :
        (/\ Selected(p)
         /\ IsSome(req[p].earlier)
         /\ Unwrap(req[p].earlier).eligible = req[p].eligible)
        => req[p].rows = Unwrap(req[p].earlier).rows

(* C6 witness: a repeated call that returns a record the earlier call returned *)
C6_Witness ==
    \E p \in Procs :
        /\ Selected(p)
        /\ IsSome(req[p].earlier)
        /\ Unwrap(req[p].earlier).eligible = req[p].eligible
        /\ req[p].rows # <<>>

(* C7: the cutoff invariant.  Every record an export returns has an id above
   last_log_message_id and a timestamp strictly before now - 1.1 x M, M being the
   interval the export read (in tenths of a second: 11 * M). *)
C7_CutoffInvariant ==
    \A p \in Procs :
        Selected(p) =>
            \A k \in 1..Len(req[p].rows) :
                /\ req[p].rows[k].id > req[p].last_id
                /\ req[p].rows[k].timestamp < req[p].at - 11 * req[p].interval

----------------------------------------------------------------------------
(* The command queue *)

Responding(p, kind) == req[p].kind = kind /\ req[p].pc = "respond"

CmdIds(cmds) == {cmds[k].id : k \in 1..Len(cmds)}

(* C2 as stated, requests handled one at a time: when an upload from node N has
   its response, every command enqueued for N so far has been returned exactly
   once, by the first upload from N that followed its enqueue. *)
C2_FirstUploadReturns ==
    \A p \in Procs :
        Responding(p, "update") =>
            \A i \in 1..Len(cmdHist) :
                cmdHist[i].node_id = req[p].node => cmdHist[i].returned = 1

(* C2 amended: a command is returned at most once; the first upload from N that
   follows the enqueue takes it out of the queue and returns it, unless a cleanup
   pass has deleted it before as older than the retention window, and then no
   upload returns it; an upload returns commands of its own node only. *)
C2_ReturnedOnceUnlessExpired ==
    /\ \A i \in 1..Len(cmdHist) :
          /\ cmdHist[i].returned <= 1
          /\ cmdHist[i].fate = "drained" => cmdHist[i].returned = 1
          /\ cmdHist[i].fate = "expired" => cmdHist[i].returned = 0
          /\ cmdHist[i].fate = "queued" =>
                /\ cmdHist[i].returned = 0
                /\ \E c \in commands : c.id = i
    /\ \A p \in Procs :
          Responding(p, "update") =>
              /\ \A i \in 1..Len(cmdHist) :
                    cmdHist[i].node_id = req[p].node => cmdHist[i].fate # "queued"
              /\ \A k \in 1..Len(req[p].cmds) : req[p].cmds[k].node_id = req[p].node

(* C2 witness: an upload from N answers with nothing although a command for N was
   enqueued earlier: an earlier upload has returned it *)
C2_Witness ==
    \E p \in Procs :
        /\ Responding(p, "update")
        /\ req[p].cmds = <<>>
        /\ \E i \in 1..Len(cmdHist) :
              cmdHist[i].node_id = req[p].node /\ cmdHist[i].returned = 1

(* C3: the drain is a SELECT followed by a separate DELETE of all commands with
   node_id = N: the DELETE step removes every command of N that is in the table,
   read by this upload's SELECT or not, and no command of another node. *)
C3_DeleteTakesAllOfNode ==
    [][\A p \in Procs :
          (req[p].pc = "drain_delete" /\ req'[p].pc = "respond") =>
              /\ \A c \in commands : c.node_id = req[p].node => c \notin commands'
              /\ \A c \in commands : c.node_id # req[p].node => c \in commands']_vars

(* C3 witness: a command has been deleted by a drain, no upload has returned it,
   and no request is in flight that could still return it *)
C3_Witness ==
    /\ AllIdle
    /\ \E i \in 1..Len(cmdHist) :
          cmdHist[i].fate = "drained" /\ cmdHist[i].returned = 0

(* C4: a command can only be returned twice by two uploads that both read it before
   either deleted it: of the uploads that return a command, at most one still finds
   its row when it runs its DELETE. *)
C4_OneOwnerPerCommand ==
    \A i \in 1..Len(cmdHist) : cmdHist[i].owned <= 1

(* C4 witness: one command returned by two uploads, both answered *)
C4_Witness ==
    \E i \in 1..Len(cmdHist) : cmdHist[i].returned = 2

----------------------------------------------------------------------------
(* The tracked maximum interval *)

Tracked(stored) == UnwrapOr(stored, DEFAULT_UPLOAD_INTERVAL_SECONDS)

BothPeriods(r) ==
    r.parameters.active_period # None /\ r.parameters.inactive_period # None

Candidate(r) ==
    LET a == r.parameters.active_period[1]
        i == r.parameters.inactive_period[1]
    IN  IF a >= i THEN a ELSE i

(* C8: when a dispatch has completed, requests handled one at a time: a broadcast
   set_update_interval with both periods has stored the candidate; a targeted one
   leaves the tracked maximum at max(prior, candidate), the prior being 300 when
   nothing was stored; any other dispatch has left the key as it was. *)
C8_IntervalUpdateResult ==
    \A p \in Procs :
        Responding(p, "command") =>
            LET r == req[p].request
            IN  IF r.command = "set_update_interval" /\ BothPeriods(r)
                THEN IF r.parameters.node_id = None
                     THEN max_upload_interval = Some(Candidate(r))
                     ELSE Tracked(max_upload_interval)
                             = Max2(Tracked(req[p].prior), Candidate(r))
                ELSE max_upload_interval = req[p].prior

(* C8 witness: a targeted set_update_interval with a candidate below the stored
   value has completed *)
C8_Witness ==
    \E p \in Procs :
        /\ Responding(p, "command")
        /\ req[p].request.command = "set_update_interval"
        /\ BothPeriods(req[p].request)
        /\ req[p].request.parameters.node_id # None
        /\ req[p].prior # None
        /\ Candidate(req[p].request) < req[p].prior[1]

(* C9: no step of a targeted dispatch lowers the tracked maximum interval. *)
C9_TargetedNeverLowers ==
    [][\A p \in Procs :
          (/\ req[p].kind = "command"
           /\ req[p].request.parameters.node_id # None
           /\ req'[p] # req[p])
          => Tracked(max_upload_interval') >= Tracked(max_upload_interval)]_vars

(* C10: when a dispatch has enqueued its commands: without a node_id it has
   inserted exactly one command for each node_id the log table held, and for no
   other; with a node_id it has inserted exactly one, for that node. *)
C10_FanOut ==
    \A p \in Procs :
        (req[p].kind = "command" /\ req[p].pc \in {"read_interval", "set_interval", "respond"})
        => IF req[p].request.parameters.node_id = None
           THEN /\ Range(req[p].inserted) = req[p].known
                /\ Len(req[p].inserted) = Cardinality(req[p].known)
           ELSE req[p].inserted = req[p].request.parameters.node_id

(* C10 witness: a broadcast has enqueued for two known nodes *)
C10_Witness ==
    \E p \in Procs :
        /\ Responding(p, "command")
        /\ req[p].request.parameters.node_id = None
        /\ Cardinality(req[p].known) = 2
        /\ Len(req[p].inserted) = 2

(* One request at a time, arriving just before and just after the cleanup interval
   has passed, some with records that are past retention already *)
ThrottleInputs ==
    [probes |-> {1}, collectors |-> {1}, operators |-> {1}, tracked |-> {FALSE},
     nodes |-> {7}, uploads |-> {<<>>, <<Ancient>>}, last_ids |-> {0},
     requests |-> {Request("ping", None, None, None),
                   Request("set_update_interval", Some(7), Some(600), Some(45))},
     steps |-> {Minutes(DEFAULT_CLEANUP_INTERVAL_MINUTES) - 1,
                Minutes(DEFAULT_CLEANUP_INTERVAL_MINUTES)},
     max_logs |-> MaxLogs, max_cmds |-> MaxCmds, max_ticks |-> MaxTicks + 1]

NextThrottle == NextOver(ThrottleInputs)

ThrottleSpec == Init /\ [][NextThrottle]_vars

(* Uploads that keep arriving while time passes, one request at a time, and
   commands for a node that never uploads, so that only cleanup can remove them *)
BacklogUploads == {<<>>, <<Ancient>>}

NextBacklog ==
    \/ Elapse(Minutes(2 * DEFAULT_CLEANUP_INTERVAL_MINUTES))
    \/ \E a \in BacklogUploads : StartUpdate(1, 7, a, MaxLogs)
    \/ StartCommand(1, Request("ping", Some(8), None, None), MaxCmds)
    \/ \E p \in Procs : InsertLog(p)
    \/ \E p \in Procs : ShouldCleanup(p)
    \/ \E p \in Procs : CleanupLogs(p)
    \/ \E p \in Procs : CleanupCommands(p)
    \/ \E p \in Procs : CleanupMark(p)
    \/ \E p \in Procs : DrainSelect(p)
    \/ \E p \in Procs : DrainDelete(p)
    \/ \E p \in Procs : Return(p)
    \/ \E p \in Procs : InsertCommand(p)

(* Every started request runs to its end, time keeps passing, and uploads keep
   arriving *)
BacklogFairness ==
    /\ WF_vars(Elapse(Minutes(2 * DEFAULT_CLEANUP_INTERVAL_MINUTES)))
    /\ SF_vars(StartUpdate(1, 7, <<>>, MaxLogs))
    /\ \A p \in Procs :
          /\ WF_vars(InsertLog(p))
          /\ WF_vars(ShouldCleanup(p))
          /\ WF_vars(CleanupLogs(p))
          /\ WF_vars(CleanupCommands(p))
          /\ WF_vars(CleanupMark(p))
          /\ WF_vars(DrainSelect(p))
          /\ WF_vars(DrainDelete(p))
          /\ WF_vars(Return(p))
          /\ WF_vars(InsertCommand(p))

BacklogSpec == Init /\ [][NextBacklog]_vars /\ BacklogFairness

(* The requests of the end-to-end scenario in their order, one at a time: node 7
   uploads one log; a cadence change is broadcast; a ping is sent to node 7; node 7
   uploads again, and again.  Exports and the clock are free. *)
BroadcastCadence == Request("set_update_interval", None, Some(600), Some(60))

PingNode7 == Request("ping", Some(7), None, None)

NextScenario ==
    \/ Tick(Minutes(DEFAULT_CLEANUP_INTERVAL_MINUTES), MaxTicks)
    \/ log_seq = 0 /\ StartUpdate(1, 7, <<Fresh>>, MaxLogs)
    \/ cmd_seq = 2 /\ \E a \in {<<>>, <<Fresh>>} : StartUpdate(1, 7, a, MaxLogs)
    \/ \E c \in BOOLEAN : StartDownload(1, 0, c)
    \/ log_seq = 1 /\ cmd_seq = 0 /\ StartCommand(1, BroadcastCadence, MaxCmds)
    \/ cmd_seq = 1 /\ StartCommand(1, PingNode7, MaxCmds)
    \/ \E p \in Procs : InsertLog(p)
    \/ \E p \in Procs : ShouldCleanup(p)
    \/ \E p \in Procs : CleanupLogs(p)
    \/ \E p \in Procs : CleanupCommands(p)
    \/ \E p \in Procs : CleanupMark(p)
    \/ \E p \in Procs : DrainSelect(p)
    \/ \E p \in Procs : DrainDelete(p)
    \/ \E p \in Procs : GetInterval(p)
    \/ \E p \in Procs : SelectLogs(p)
    \/ \E p \in Procs : Return(p)
    \/ \E p \in Procs : GetAllNodeIds(p)
    \/ \E p \in Procs : InsertCommand(p)
    \/ \E p \in Procs : SetInterval(p)

ScenarioSpec == Init /\ [][NextScenario]_vars

(* One request at a time, with uploads whose INSERT may fail and exports whose
   last_log_message_id may be negative *)
FaultInputs ==
    [probes |-> {1}, collectors |-> {1}, operators |-> {1}, tracked |-> {FALSE},
     nodes |-> {7}, uploads |-> {<<>>, <<Fresh, Old>>}, last_ids |-> {-1, 0},
     requests |-> {Request("ping", None, None, None),
                   Request("set_update_interval", Some(7), Some(600), Some(45))},
     steps |-> {Minutes(30) + 1}, max_logs |-> MaxLogs, max_cmds |-> MaxCmds,
     max_ticks |-> MaxTicks]

NextFault ==
    \/ NextOver(FaultInputs)
    \/ \E p \in Procs : InsertLogFails(p)
    \/ \E p \in Procs : ReturnError(p)

FaultSpec == Init /\ [][NextFault]_vars

----------------------------------------------------------------------------
(* The known nodes *)

KnownNodes == Range(get_all_node_ids)

(* C11: known-node membership is permanent: no step takes a node_id out of the set
   of broadcast targets, so a node that has uploaded a log record stays a target
   of every later broadcast, cleanup passes included. *)
C11_KnownNodesNeverForgotten ==
    [][KnownNodes \subseteq KnownNodes']_vars

----------------------------------------------------------------------------
(* Cleanup *)

RetentionCutoff == now - Minutes(DEFAULT_DELETE_TIMEOUT_MINUTES)

InPass(p) == req[p].pc \in {"cleanup_logs", "cleanup_commands", "cleanup_mark"}

(* C12: every row a cleanup pass removes, from either table, has a timestamp
   strictly older than the time of the pass less the retention window, and one
   pass removes at most the batch cap of rows per table; also with two passes
   running at once. *)
C12_CleanupDeletesOnlyExpired ==
    [][\A p \in Procs :
          /\ (req[p].pc = "cleanup_logs" /\ req'[p].pc = "cleanup_commands") =>
                /\ \A r \in log_messages \ log_messages' : r.timestamp < RetentionCutoff
                /\ Cardinality(log_messages \ log_messages') <= CLEANUP_BATCH_LIMIT
                /\ commands' = commands
          /\ (req[p].pc = "cleanup_commands" /\ req'[p].pc = "cleanup_mark") =>
                /\ \A c \in commands \ commands' : c.timestamp < RetentionCutoff
                /\ Cardinality(commands \ commands') <= CLEANUP_BATCH_LIMIT
                /\ log_messages' = log_messages]_vars

(* C12 witness: two requests are inside their cleanup passes at once and a log row
   has been deleted *)
C12_Witness ==
    /\ \E p, q \in Procs : p # q /\ InPass(p) /\ InPass(q)
    /\ Cardinality(log_messages) < log_seq


ThrottleOpen ==
    \/ last_cleanup_time = None
    \/ now - last_cleanup_time[1] >= Minutes(DEFAULT_CLEANUP_INTERVAL_MINUTES)

(* C13: with requests handled one at a time, a request starts a cleanup pass if and
   only if no last-run time is stored or the stored one is at least the cleanup
   interval old; the end of a pass stores the time as the last-run time; and a row
   is deleted by cleanup only while the last-run time is that old, so a request
   arriving within the interval after a pass deletes nothing. *)
C13_CleanupThrottle ==
    [][/\ \A p \in Procs :
             /\ (req[p].pc = "should_cleanup" /\ req'[p].pc # "should_cleanup") =>
                   (req'[p].pc = "cleanup_logs" <=> ThrottleOpen)
             /\ (req[p].pc = "cleanup_mark" /\ req'[p].pc # "cleanup_mark") =>
                   last_cleanup_time' = Some(now)
             /\ (req[p].pc # "cleanup_mark" /\ req'[p] # req[p]) =>
                   last_cleanup_time' = last_cleanup_time
       /\ (\E r \in log_messages : r \notin log_messages') => ThrottleOpen
       /\ (\E c \in commands : c \notin commands') =>
             \/ ThrottleOpen
             \/ \E p \in Procs : req[p].pc = "drain_delete"]_vars

(* C13 witness: an upload has skipped the pass, within the interval after the last
   one, although a log row past retention is stored *)
C13_Witness ==
    \E p \in Procs :
        /\ req[p].kind = "update"
        /\ req[p].pc = "drain_select"
        /\ ~ThrottleOpen
        /\ now > last_cleanup_time[1]
        /\ \E r \in log_messages : r.timestamp < RetentionCutoff


ExpiredLog(i) == \E r \in log_messages : r.id = i /\ r.timestamp < RetentionCutoff

ExpiredCommand(i) == \E c \in commands : c.id = i /\ c.timestamp < RetentionCutoff

(* C14: while time passes and uploads keep arriving, every log row and every
   command that is older than the retention window is eventually deleted, also
   when more rows are expired than one pass may delete. *)
C14_BacklogCleared ==
    /\ \A i \in 1..MaxLogs : ExpiredLog(i) ~> ~(\E r \in log_messages : r.id = i)
    /\ \A i \in 1..MaxCmds : ExpiredCommand(i) ~> ~(\E c \in commands : c.id = i)

(* C14 witness: a pass has deleted a log row at its cap and another row past
   retention is left for a later pass *)
C14_Witness ==
    /\ \E p \in Procs : req[p].pc = "cleanup_commands"
    /\ Cardinality(log_messages) < log_seq
    /\ \E r \in log_messages : r.timestamp < RetentionCutoff

----------------------------------------------------------------------------
(* The end-to-end scenario *)

Envelopes(cmds) == [k \in 1..Len(cmds) |-> cmds[k].command]

NothingDrainedYet == \A i \in 1..Len(cmdHist) : cmdHist[i].fate = "queued"

DrainCompletes(p) == req[p].pc = "drain_delete" /\ req'[p].pc = "respond"

(* C15 as stated: the first upload returns []; after the broadcast the tracked
   maximum is 600; the upload that follows the ping returns the ping alone, and the
   upload after that returns []. *)
C15_ScenarioAsStated ==
    [][/\ cmd_seq = 2 => max_upload_interval = Some(600)
       /\ \A p \in Procs :
             DrainCompletes(p) =>
                Envelopes(req[p].cmds) =
                   IF cmd_seq = 2 /\ NothingDrainedYet THEN <<PingNode7>> ELSE <<>>]_vars

(* C15 amended: the first upload returns []; after the broadcast the tracked
   maximum is 600; the broadcast has enqueued its set_update_interval for node 7,
   the one known node, so the upload that follows the ping returns two commands,
   the set_update_interval and then the ping; the upload after that returns []. *)
C15_ScenarioWithBroadcast ==
    [][/\ cmd_seq = 2 => max_upload_interval = Some(600)
       /\ \A p \in Procs :
             DrainCompletes(p) =>
                Envelopes(req[p].cmds) =
                   IF cmd_seq = 2 /\ NothingDrainedYet
                   THEN <<BroadcastCadence, PingNode7>> ELSE <<>>]_vars

(* C15 witness: the end of the scenario: the second upload after the ping has its
   empty response, both commands having been returned once *)
C15_Witness ==
    \E p \in Procs :
        /\ Responding(p, "update")
        /\ req[p].cmds = <<>>
        /\ Len(cmdHist) = 2
        /\ \A i \in 1..2 : cmdHist[i].returned = 1 /\ cmdHist[i].node_id = 7
        /\ max_upload_interval = Some(600)

----------------------------------------------------------------------------
(* Failures *)

(* C16: an upload that fails on an INSERT leaves none of its entries in the log
   table. *)
C16_FailedUploadLeavesNothing ==
    \A p \in Procs :
        req[p].pc = "internal_error" =>
            \A r \in log_messages : r.id \notin Range(req[p].inserted)

Refused(r) == r.kind = "download" /\ r.last_id < 0

(* C17: an export with last_log_message_id < 0 is answered with the bad-request
   response and no logs, and no step of it changes the tables, the last-run time
   or the tracked maximum interval; it runs no cleanup pass. *)
C17_NegativeCursorRejected ==
    [][\A p \in Procs :
          /\ Refused(req'[p]) => req'[p].pc = "bad_request" /\ req'[p].rows = <<>>
          /\ (Refused(req[p]) /\ req'[p] # req[p]) =>
                /\ req'[p] = IdleReq
                /\ UNCHANGED <<tables, keys>>]_vars

(* C17 witness: an export with a negative cursor is refused while the throttle is
   open and a log row is past retention, so that a cleanup pass would have deleted *)
C17_Witness ==
    /\ \E p \in Procs : Refused(req[p]) /\ req[p].pc = "bad_request"
    /\ ThrottleOpen
    /\ \E r \in log_messages : r.timestamp < RetentionCutoff

----------------------------------------------------------------------------
(* The queue of one node *)

HoldsCommands(p) == req[p].kind = "update" /\ req[p].pc \in {"drain_delete", "respond"}

(* C18: an upload returns its node's commands in increasing enqueue id, and so a
   command enqueued earlier, by a dispatch that was complete before the next one
   began, comes before the later one. *)
C18_DrainOrder ==
    \A p \in Procs :
        HoldsCommands(p) =>
            \A j, k \in 1..Len(req[p].cmds) :
                j < k => /\ req[p].cmds[j].id < req[p].cmds[k].id
                         /\ req[p].cmds[j].timestamp <= req[p].cmds[k].timestamp

(* C18 witness: an upload answers with two commands *)
C18_Witness ==
    \E p \in Procs : Responding(p, "update") /\ Len(req[p].cmds) = 2


(* The dispatch q has enqueued its set_update_interval and has not yet written the
   tracked maximum interval *)
BeforeIntervalUpdate(q) ==
    /\ req[q].kind = "command"
    /\ req[q].pc \in {"read_interval", "set_interval"}

(* The upload p holds, for its response, a command that the dispatch q enqueued *)
HoldsCommandOf(p, q) ==
    /\ HoldsCommands(p)
    /\ \E k \in 1..Len(req[p].cmds) :
          /\ req[p].cmds[k].command = req[q].request
          /\ req[p].cmds[k].id > cmd_seq - Len(req[q].inserted)

(* C19: no upload returns a set_update_interval command with candidate c while the
   tracked maximum interval is still below c because the dispatch of that command
   has not yet updated it. *)
C19_NoDeliveryBeforeUpdate ==
    \A p, q \in Procs :
        (BeforeIntervalUpdate(q) /\ HoldsCommandOf(p, q)) =>
            Tracked(max_upload_interval) >= Candidate(req[q].request)


(* C20: a command of node N leaves the table only in the DELETE of a drain by an
   upload from N, or in the DELETE of a cleanup pass that finds it older than the
   retention window; an upload holds commands of its own node only. *)
C20_QueueIsolation ==
    [][/\ \A c \in commands :
             c \notin commands' =>
                \E p \in Procs :
                    \/ /\ req[p].kind = "update"
                       /\ DrainCompletes(p)
                       /\ req[p].node = c.node_id
                    \/ /\ req[p].pc = "cleanup_commands"
                       /\ req'[p].pc = "cleanup_mark"
                       /\ c.timestamp < RetentionCutoff
       /\ \A p \in Procs :
             HoldsCommands(p) =>
                \A k \in 1..Len(req[p].cmds) : req[p].cmds[k].node_id = req[p].node]_vars

(* C20 witness: an upload from node 8 has its empty response while a command for
   node 7 is queued *)
C20_Witness ==
    /\ \E p \in Procs : Responding(p, "update") /\ req[p].node = 8 /\ req[p].cmds = <<>>
    /\ \E c \in commands : c.node_id = 7

====
